---- MODULE Spec2Model ----
(***************************************************************************)
(* Model of common_cents: closest_round_division() and the refund()       *)
(* wrapper, with col_sum().                                                *)
(*                                                                         *)
(* Numbers.  The fractions are exact rationals over one common            *)
(* denominator `den`: fractions[j] stands for fractions[j] / den.  Every   *)
(* real-valued quantity of the code (the column errors, remainder_error,   *)
(* scale_factor, exact, exact_sum) is a multiple of 1/den and is held as   *)
(* its integer numerator, so x < 1 in the code reads x < den here.  The    *)
(* rounding of 64 bit floats is not modelled.                              *)
(* Columns are numbered 1..C here (0..C-1 in the code); the order of the   *)
(* columns, which is what the tie-breaks look at, is the same.             *)
(***************************************************************************)
EXTENDS Integers, Sequences, FiniteSets, TLC

\* ---- bounds of the model ----
MaxCols == 3
MaxRows == 3
MaxDen == 3
MaxNum == 2
MaxAmt == 3
MaxCharge == 3

\* exponent of the snap tolerance 2 ** -40 of _round_to_int_if_close
SnapBits == 40

VARIABLES fractions, den, charge, numbers, scale_factor, remainder_error,
          col_errors, row, remainder, result, pc

vars == <<fractions, den, charge, numbers, scale_factor, remainder_error,
          col_errors, row, remainder, result, pc>>

\* ---- arithmetic helpers ----
Abs(x) == IF x < 0 THEN -x ELSE x

Min(a, b) == IF a < b THEN a ELSE b

Max(a, b) == IF a > b THEN a ELSE b

\* int(a / b) for b > 0: truncation toward zero
Trunc(a, b) == IF a >= 0 THEN a \div b ELSE -((-a) \div b)

RECURSIVE SumSeq(_)
SumSeq(s) == IF s = <<>> THEN 0 ELSE s[1] + SumSeq(Tail(s))

RECURSIVE Shr(_, _)
Shr(x, n) == IF n = 0 THEN x ELSE Shr(x \div 2, n - 1)

\* r / d < 2 ** -40 for integers r >= 0, d >= 1, without forming 2 ** 40
BelowTolerance(r, d) == r <= Shr(d - 1, SnapBits)

\* _round_to_int_if_close(val), val = v / d; the result again over d
RoundToIntIfClose(v, d) ==
  LET iv == Trunc(v, d)
  IN  IF BelowTolerance(Abs(v - iv * d), d) THEN iv * d
      ELSE IF BelowTolerance(Abs(v - iv * d - d), d) THEN (iv + 1) * d
      ELSE IF BelowTolerance(Abs(v - iv * d + d), d) THEN (iv - 1) * d
      ELSE v

\* ---- col_sum ----
RECURSIVE ColSumFrom(_, _, _)
ColSumFrom(distribution, k, sums) ==
  IF k > Len(distribution) THEN sums
  ELSE ColSumFrom(distribution, k + 1,
                  [idx \in 1..Len(sums) |-> sums[idx] + distribution[k][idx]])

col_sum(distribution) ==
  ColSumFrom(distribution, 1, [idx \in 1..Len(distribution[1]) |-> 0])

\* ---- the body of the loop of closest_round_division ----

\* the row of integer-truncated fractions of one number
TruncatedRow(fracs, d, number) ==
  [idx \in 1..Len(fracs) |-> Trunc(fracs[idx] * number, d)]

\* faulty variant: the error of column idx is added to the entry at list position
\* idx of col_errors instead of the entry of col-num idx
AccumulateErrors_ByPosition(ce, fracs, d, number) ==
  [k \in 1..Len(ce) |->
     [err |-> ce[k].err + (fracs[k] * number - d * Trunc(fracs[k] * number, d)),
      col |-> ce[k].col]]

\* indexed_col_errors[idx][0] += exact - truncated, for every idx; the
\* entries are shared with col_errors, whose order does not change
AccumulateErrors(ce, fracs, d, number) ==
  [k \in 1..Len(ce) |->
     [err |-> ce[k].err + (fracs[ce[k].col] * number
                           - d * Trunc(fracs[ce[k].col] * number, d)),
      col |-> ce[k].col]]

\* faulty variant: ties among equal errors ordered by descending col-num
LessPos_TiesLeft(a, b) == a.err < b.err \/ (a.err = b.err /\ a.col > b.col)

\* list order of col_errors.sort(): by error, then by col-num
LessPos(a, b) == a.err < b.err \/ (a.err = b.err /\ a.col < b.col)

\* faulty variant: the sort of the negative branch without the flipped col-num
LessNeg_NoFlip(a, b) == a.err < b.err \/ (a.err = b.err /\ a.col < b.col)

\* list order of col_errors.sort(key=(err, -col)): by error, then by -col-num
LessNeg(a, b) == a.err < b.err \/ (a.err = b.err /\ a.col > b.col)

RECURSIVE InsertPos(_, _)
InsertPos(e, s) ==
  IF s = <<>> THEN <<e>>
  ELSE IF LessPos(e, s[1]) THEN <<e>> \o s
  ELSE <<s[1]>> \o InsertPos(e, Tail(s))

RECURSIVE SortPos(_)
SortPos(s) == IF s = <<>> THEN <<>> ELSE InsertPos(s[1], SortPos(Tail(s)))

RECURSIVE InsertNeg(_, _)
InsertNeg(e, s) ==
  IF s = <<>> THEN <<e>>
  ELSE IF LessNeg(e, s[1]) THEN <<e>> \o s
  ELSE <<s[1]>> \o InsertNeg(e, Tail(s))

RECURSIVE SortNeg(_)
SortNeg(s) == IF s = <<>> THEN <<>> ELSE InsertNeg(s[1], SortNeg(Tail(s)))

\* faulty variant: the slice starts one position late (col_errors[-rem + 1:])
TakenPos_OffByOne(n, rem) == (Max(n - rem, 0) + 2)..n

\* positions of col_errors[-rem:] for rem > 0 (a Python slice: clamped)
TakenPos(n, rem) == (Max(n - rem, 0) + 1)..n

\* faulty variant: the slice ends one position early (col_errors[:-rem - 1])
TakenNeg_OffByOne(n, rem) == 1..Min(-rem - 1, n)

\* positions of col_errors[:-rem] for rem < 0 (a Python slice: clamped)
TakenNeg(n, rem) == 1..Min(-rem, n)

\* faulty variant: the carry is consumed only once it exceeds 1 (> for >=, < for <=)
CarryStep_Strict(re, scale, d, number, truncated) ==
  LET exact_sum == number * scale
      target == Trunc(exact_sum, d)
      rem0 == target - SumSeq(truncated)
      re1 == re + (exact_sum - d * target)
  IN  IF re1 > d THEN [remainder |-> rem0 + 1, remainder_error |-> re1 - d]
      ELSE IF re1 < -d THEN [remainder |-> rem0 - 1, remainder_error |-> re1 + d]
      ELSE [remainder |-> rem0, remainder_error |-> re1]

\* exact_sum = number * scale_factor, and the carry it leaves
CarryStep(re, scale, d, number, truncated) ==
  LET exact_sum == number * scale
      target == Trunc(exact_sum, d)
      rem0 == target - SumSeq(truncated)
      re1 == re + (exact_sum - d * target)
  IN  IF re1 >= d THEN [remainder |-> rem0 + 1, remainder_error |-> re1 - d]
      ELSE IF re1 <= -d THEN [remainder |-> rem0 - 1, remainder_error |-> re1 + d]
      ELSE [remainder |-> rem0, remainder_error |-> re1]

\* faulty variant: the units are given out but the column errors are not updated
Distribute_NoLedgerUpdate(ce, truncated, rem, d) ==
  IF rem > 0 THEN
    LET sorted == SortPos(ce)
        cols == {sorted[k].col : k \in TakenPos(Len(sorted), rem)}
    IN  [col_errors |-> sorted,
         row |-> [idx \in 1..Len(truncated) |->
                    IF idx \in cols THEN truncated[idx] + 1 ELSE truncated[idx]]]
  ELSE IF rem < 0 THEN
    LET sorted == SortNeg(ce)
        cols == {sorted[k].col : k \in TakenNeg(Len(sorted), rem)}
    IN  [col_errors |-> sorted,
         row |-> [idx \in 1..Len(truncated) |->
                    IF idx \in cols THEN truncated[idx] - 1 ELSE truncated[idx]]]
  ELSE [col_errors |-> ce, row |-> truncated]

\* distribution of the remainder over the columns
Distribute(ce, truncated, rem, d) ==
  IF rem > 0 THEN
    LET sorted == SortPos(ce)
        taken == TakenPos(Len(sorted), rem)
        cols == {sorted[k].col : k \in taken}
    IN  [col_errors |-> [k \in 1..Len(sorted) |->
                           IF k \in taken
                           THEN [err |-> sorted[k].err - d, col |-> sorted[k].col]
                           ELSE sorted[k]],
         row |-> [idx \in 1..Len(truncated) |->
                    IF idx \in cols THEN truncated[idx] + 1 ELSE truncated[idx]]]
  ELSE IF rem < 0 THEN
    LET sorted == SortNeg(ce)
        taken == TakenNeg(Len(sorted), rem)
        cols == {sorted[k].col : k \in taken}
    IN  [col_errors |-> [k \in 1..Len(sorted) |->
                           IF k \in taken
                           THEN [err |-> sorted[k].err + d, col |-> sorted[k].col]
                           ELSE sorted[k]],
         row |-> [idx \in 1..Len(truncated) |->
                    IF idx \in cols THEN truncated[idx] - 1 ELSE truncated[idx]]]
  ELSE [col_errors |-> ce, row |-> truncated]

\* assert col_errors[0][0] > -1 and col_errors[-1][0] < 1
ColAssert(ce, d) == ce[1].err > -d /\ ce[Len(ce)].err < d

\* assert -1 < sum(row) - (number * scale_factor) < 1
RowAssert(r, number, scale, d) ==
  /\ -d < d * SumSeq(r) - number * scale
  /\ d * SumSeq(r) - number * scale < d

\* one iteration of the loop, as a function of the state it reads
RowStep(ce, re, fracs, scale, d, number) ==
  LET truncated == TruncatedRow(fracs, d, number)
      ce1 == AccumulateErrors(ce, fracs, d, number)
      carry == CarryStep(re, scale, d, number, truncated)
      dist == Distribute(ce1, truncated, carry.remainder, d)
  IN  [col_errors |-> dist.col_errors,
       row |-> dist.row,
       remainder |-> carry.remainder,
       remainder_error |-> carry.remainder_error,
       ok |-> ColAssert(dist.col_errors, d)
              /\ RowAssert(dist.row, number, scale, d)]

\* col_errors = [[0, col] for col in range(len(fractions))]
InitColErrors(n) == [col \in 1..n |-> [err |-> 0, col |-> col]]

\* ---- inputs ----
Amounts == (-MaxAmt)..MaxAmt

Numerators == (-MaxNum)..MaxNum

FractionVectors == UNION {[1..n -> Numerators] : n \in 1..MaxCols}

ChargeVectors ==
  {c \in UNION {[1..n -> 0..MaxCharge] : n \in 1..MaxCols} : SumSeq(c) > 0}

\* state on entry to the loop of closest_round_division(numbers, fracs / d)
Setup(fracs, d) ==
  /\ fractions = fracs
  /\ den = d
  /\ scale_factor = RoundToIntIfClose(SumSeq(fracs), d)
  /\ remainder_error = 0
  /\ col_errors = InitColErrors(Len(fracs))
  /\ numbers = <<>>
  /\ row = <<>>
  /\ remainder = 0
  /\ result = <<>>
  /\ pc = "loop"

\* a direct call closest_round_division(numbers, fractions)
Init ==
  /\ charge = <<>>
  /\ \E d \in 1..MaxDen : \E fracs \in FractionVectors : Setup(fracs, d)

\* refund(refunds, charge): fractions = [allocation / total ...]
InitRefund ==
  /\ charge \in ChargeVectors
  /\ Setup(charge, SumSeq(charge))

\* for number in numbers: one row
ProcessRow(number) ==
  /\ pc = "loop"
  /\ Len(numbers) < MaxRows
  /\ LET s == RowStep(col_errors, remainder_error, fractions, scale_factor,
                      den, number)
     IN  /\ col_errors' = s.col_errors
         /\ remainder_error' = s.remainder_error
         /\ remainder' = s.remainder
         /\ row' = s.row
         /\ numbers' = Append(numbers, number)
         /\ IF s.ok
            THEN result' = Append(result, s.row) /\ pc' = "loop"
            ELSE result' = result /\ pc' = "AssertionError"
  /\ UNCHANGED <<fractions, den, charge, scale_factor>>

\* assert -1 < remainder_error < 1; return result
Return ==
  /\ pc = "loop"
  /\ pc' = IF -den < remainder_error /\ remainder_error < den
           THEN "done" ELSE "AssertionError"
  /\ UNCHANGED <<fractions, den, charge, numbers, scale_factor,
                 remainder_error, col_errors, row, remainder, result>>

Next == (\E number \in Amounts : ProcessRow(number)) \/ Return

Spec == Init /\ [][Next]_vars

SpecRefund == InitRefund /\ [][Next]_vars

\* ---- the calls of the docstrings and of test.py ----

\* fraction vectors [1/3, 1/3, 1/3], [1/1, 1/3, 1/3], [1, 0.03], [1, 0.3],
\* [2/3, 1/3], [1, -0.1], [1, -1], [1, 0], and one with a zero share among
\* shares of both signs, [1/6, -1, 1/2, 0]
ExampleFractions ==
  { [fracs |-> <<1, 1, 1>>, d |-> 3], [fracs |-> <<3, 1, 1>>, d |-> 3],
    [fracs |-> <<100, 3>>, d |-> 100], [fracs |-> <<10, 3>>, d |-> 10],
    [fracs |-> <<2, 1>>, d |-> 3], [fracs |-> <<10, -1>>, d |-> 10],
    [fracs |-> <<1, -1>>, d |-> 1], [fracs |-> <<1, 0>>, d |-> 1],
    [fracs |-> <<1, -6, 3, 0>>, d |-> 6] }

ExampleAmounts == {-5, -3, -1, 1, 10, 150, 1000}

InitExamples ==
  /\ charge = <<>>
  /\ \E call \in ExampleFractions : Setup(call.fracs, call.d)

NextExamples ==
  (\E number \in ExampleAmounts : ProcessRow(number)) \/ Return

SpecExamples == InitExamples /\ [][NextExamples]_vars

\* ---- vocabulary of the properties ----
C == Len(fractions)

Sign(x) == IF x > 0 THEN 1 ELSE IF x < 0 THEN -1 ELSE 0

Neg(r) == [idx \in 1..Len(r) |-> -r[idx]]

\* the last number taken from numbers
LastNumber == numbers[Len(numbers)]

\* the call has not raised: result holds one row per number taken so far
NotRaised == pc # "AssertionError"

\* every row the loop has computed, the one an assertion rejected included
Rows == IF Len(numbers) > Len(result) THEN Append(result, row) ELSE result

\* ledger[j] over den: exact share of column j minus what result gives it
Ledger(j) == SumSeq(numbers) * fractions[j] - den * col_sum(result)[j]

NonNegNumbers == \A i \in 1..Len(numbers) : numbers[i] >= 0

\* the row remainder before the carry is consulted
BaseRemainder ==
  Trunc(LastNumber * SumSeq(fractions), den)
    - SumSeq(TruncatedRow(fractions, den, LastNumber))

\* ---- C1 ----
\* C1: every row i that closest_round_division computes satisfies
\* |sum(row i) - numbers[i] * sum(fractions)| < 1.
RowConservation ==
  \A i \in 1..Len(Rows) :
    Abs(den * SumSeq(Rows[i]) - numbers[i] * SumSeq(fractions)) < den

\* a third row that received two units, under a scale that is not an integer
RowConservationWitness ==
  /\ Len(result) = 3
  /\ remainder >= 2
  /\ SumSeq(fractions) % den # 0
  /\ \E i \in 1..Len(numbers) : numbers[i] < 0

\* ---- C2 ----
\* C2: after each row is resolved, every column's ledger entry (exact
\* cumulative share minus cumulative allocation) has magnitude below 1.
ColumnConservation ==
  (NotRaised /\ result # <<>>) => \A j \in 1..C : Abs(Ledger(j)) < den

\* ---- C4 ----
\* sum over the columns of (col_sum(m)[c] - fractions[c] * sum(numbers)) ^ 2,
\* over den ^ 2
SqDeviation(m) ==
  LET cs == col_sum(m)
      dev == [c \in 1..C |-> den * cs[c] - fractions[c] * SumSeq(numbers)]
  IN  SumSeq([c \in 1..C |-> dev[c] * dev[c]])

\* m with one unit of row r moved from column i to column j
Nudge(m, r, i, j) ==
  [m EXCEPT ![r] = [c \in 1..C |-> IF c = i THEN m[r][c] - 1
                                    ELSE IF c = j THEN m[r][c] + 1
                                    ELSE m[r][c]]]

\* C4: in the returned matrix, moving one unit from a column to another within
\* a row never strictly decreases the squared deviation of the column totals.
LocalOptimality ==
  (pc = "done" /\ result # <<>>) =>
    \A r \in 1..Len(result) : \A i, j \in 1..C :
      i # j => SqDeviation(Nudge(result, r, i, j)) >= SqDeviation(result)

\* ---- C6 ----
\* C6: a column whose fraction is exactly 0 holds 0 in every row of result.
ZeroHandling ==
  \A i \in 1..Len(result) : \A j \in 1..C :
    fractions[j] = 0 => result[i][j] = 0

\* ---- C5 ----
\* C5: the row computed for [-n] is the element-wise negation of the row
\* computed for [n], and the one call raises exactly when the other does.
SignSymmetry ==
  Len(numbers) = 1 =>
    LET s == RowStep(InitColErrors(C), 0, fractions, scale_factor, den,
                     -LastNumber)
    IN  s.row = Neg(row) /\ s.ok = NotRaised

\* a negative number whose unit went to the right one of two tied columns
SignSymmetryWitness ==
  /\ numbers = <<-1>>
  /\ NotRaised
  /\ remainder = -1
  /\ C = 3
  /\ fractions[2] = fractions[3]
  /\ row[2] = 0 /\ row[3] = -1

\* ---- C7 ----
\* every fraction is 1/C
EqualShares ==
  /\ fractions[1] > 0
  /\ den = C * fractions[1]
  /\ \A j \in 1..C : fractions[j] = fractions[1]

\* C7: a single number n over C equal fractions gives trunc(n/C) to every
\* column and one more unit of the sign of n to the |n| mod C rightmost ones.
TiesGoRight ==
  (Len(numbers) = 1 /\ EqualShares) =>
    /\ NotRaised
    /\ row = [j \in 1..C |->
                Trunc(LastNumber, C)
                  + (IF j > C - (Abs(LastNumber) % C)
                     THEN Sign(LastNumber) ELSE 0)]

\* -2 over thirds gives [0, -1, -1]
TiesGoRightWitness ==
  /\ EqualShares
  /\ C = 3
  /\ numbers = <<-2>>
  /\ result = << <<0, -1, -1>> >>

\* ---- C9 ----
\* C9: after every row and at the return the carry is strictly between -1 and
\* 1; when the row's residue brings it to >= 1 (<= -1) the row remainder takes
\* exactly one unit (+1, -1) and the carry moves toward zero by exactly 1.
CarryStaysSubUnit ==
  [][ /\ -den < remainder_error' /\ remainder_error' < den
      /\ numbers' # numbers =>
           LET n == numbers'[Len(numbers')]
               exact == n * SumSeq(fractions)
               raw == remainder_error + (exact - den * Trunc(exact, den))
               base == Trunc(exact, den)
                         - SumSeq(TruncatedRow(fractions, den, n))
           IN  /\ raw >= den =>
                    remainder' = base + 1 /\ remainder_error' = raw - den
               /\ raw <= -den =>
                    remainder' = base - 1 /\ remainder_error' = raw + den
    ]_vars

\* a row that took a unit out of a carry that had reached -1 or below
CarryStaysSubUnitWitness ==
  /\ Len(numbers) >= 2
  /\ remainder = BaseRemainder - 1
  /\ remainder_error # 0

\* ---- C10 ----
\* C10: the carry-adjusted remainder never exceeds the number of columns in
\* magnitude, exactly |remainder| columns move by one unit each, and the
\* column errors sum to the carry.
RemainderFullyDistributed ==
  Len(numbers) > 0 =>
    LET truncated == TruncatedRow(fractions, den, LastNumber)
    IN  /\ Abs(remainder) <= C
        /\ Cardinality({j \in 1..C : row[j] # truncated[j]}) = Abs(remainder)
        /\ \A j \in 1..C : row[j] - truncated[j] \in {0, Sign(remainder)}
        /\ SumSeq([k \in 1..C |-> col_errors[k].err]) = remainder_error

\* a row in which the unit taken from the carry brought the remainder to C,
\* so that every column received a unit
RemainderFullyDistributedWitness ==
  /\ C >= 2
  /\ Len(numbers) >= 2
  /\ remainder = C
  /\ remainder = BaseRemainder + 1

====
